---- MODULE Spec2Model ----
(***************************************************************************)
(* DomMover (src/dom-mover.js): drag-and-drop reordering of DOM elements.  *)
(* The model is one page holding one DomMover instance: the DOM below the  *)
(* document body, the instance's fields, the native drag gesture of the    *)
(* browser, and a log of the user callbacks the instance invokes.          *)
(***************************************************************************)
EXTENDS Integers, Sequences, FiniteSets, TLC

(* ---------------------------------------------------------------------- *)
(* Bounds                                                                  *)
(* ---------------------------------------------------------------------- *)
\* Pointer events carry a clientY in 0..MaxY
MaxY == 2

(* ---------------------------------------------------------------------- *)
(* The page: node identities                                               *)
(* ---------------------------------------------------------------------- *)
NULL == -1
UNDEFINED == -2
PH == 0
LIST1 == 101
LIST2 == 102
WRAP == 103
BODY == 104
HTML == 105
DOCUMENT == 106

Items == {1, 2, 3}
Lists == {LIST1, LIST2}
Containers == {LIST1, LIST2, WRAP, BODY, HTML, DOCUMENT}
Layouts == {"list", "table", "sections"}

\* The nodes that have a class list: every element, the document itself not
Elements == Items \cup {PH} \cup (Containers \ {DOCUMENT})

\* Where the page carries the class sortable-disabled: nowhere, on the second
\* item, on the items' parent, or on the wrapper above it
DisabledAt == {NULL, 2, LIST1, WRAP}

InstanceId == "dmX"

VARIABLES
    layout,             \* which page: one <ul> of three <li>, a <table> of two <tbody>
                        \* whose rows are sorted, or a <table> whose three <tbody> are
    kids,               \* element children of each list container, in document order
    classList,          \* class names of every element
    draggableAttr,      \* items carrying draggable="true"
    dataset,            \* data-* attributes of every item
    dragImage,          \* drag-image clones attached to document.body
    constructed,        \* new DomMover(...) has run
    elementOrSelector,  \* kind of the constructor's first argument
    elements,           \* this.elements
    options,            \* this.options
    boundAt,            \* node the five listeners are bound at, NULL when none
    draggedItem,        \* this.draggedItem
    draggedItemData,    \* this.draggedItemData
    placeholder,        \* this.placeholder
    phColspan,          \* colspan of the placeholder's <td>, NULL when it has none
    tagNameCopy,        \* this.tagNameCopy
    lastMouseY,         \* this.lastMouseY
    lastDraggedOver,    \* this.lastDraggedOver
    lastMouseDirection, \* this.lastMouseDirection
    native,             \* the browser's drag gesture: "none", "dragging", "dropped"
    nativeSource,       \* the element the browser is dragging, or dragged last
    last,               \* what ran last: a handler, the frame callback or the page script
    threw,              \* the handler that ran last raised an exception
    calls,              \* the callbacks the handler that ran last invoked, in order
    pickupLog,          \* the callbacks the last drag-start invoked
    dropLog,            \* the callbacks the drop of the last gesture invoked
    dropOutcome,        \* what the drop of the last gesture did
    prevTick,           \* the last positioning tick of this gesture that was not skipped
    kidsAtPickup,       \* kids when the last drag-start was dispatched
    kidsAtDrop,         \* kids when the drop of the last gesture was dispatched
    classesAtPickup,    \* classes of the drag-start target when the last drag-start
                        \* was dispatched
    other               \* a second DomMover instance of the page: its fields, the
                        \* callbacks its handler that ran last invoked, whether that
                        \* handler raised, whether the instance wrote to the document

dom == <<layout, kids, classList, draggableAttr, dataset, dragImage>>
inst == <<constructed, elementOrSelector, elements, options, boundAt, draggedItem,
          draggedItemData, placeholder, phColspan, tagNameCopy, lastMouseY,
          lastDraggedOver, lastMouseDirection>>
env == <<native, nativeSource, last, threw, calls, pickupLog, dropLog, dropOutcome, prevTick,
         kidsAtPickup, kidsAtDrop, classesAtPickup>>
vars == <<dom, inst, env, other>>

(* ---------------------------------------------------------------------- *)
(* DOM primitives                                                          *)
(* ---------------------------------------------------------------------- *)
SeqToSet(s) == {s[i] : i \in 1..Len(s)}

IndexOf(s, n) == CHOOSE i \in 1..Len(s) : s[i] = n

RemoveFrom(s, n) == SelectSeq(s, LAMBDA x : x # n)

InsertAt(s, i, n) == SubSeq(s, 1, i - 1) \o <<n>> \o SubSeq(s, i, Len(s))

\* Node.parentNode
parentNode(k, n) ==
    IF n \in Lists THEN WRAP
    ELSE IF n = WRAP THEN BODY
    ELSE IF n = BODY THEN HTML
    ELSE IF n = HTML THEN DOCUMENT
    ELSE IF n = DOCUMENT \/ n = NULL THEN NULL
    ELSE IF \E c \in Lists : n \in SeqToSet(k[c])
         THEN CHOOSE c \in Lists : n \in SeqToSet(k[c])
         ELSE NULL

\* Node.contains: a is n or an ancestor of n
RECURSIVE contains(_, _, _)
contains(k, a, n) ==
    IF n = NULL THEN FALSE
    ELSE IF n = a THEN TRUE
    ELSE contains(k, a, parentNode(k, n))

\* Element.previousElementSibling / nextElementSibling
previousElementSibling(k, n) ==
    LET p == parentNode(k, n) IN
    IF p \notin Lists THEN NULL
    ELSE LET i == IndexOf(k[p], n) IN IF i = 1 THEN NULL ELSE k[p][i - 1]

nextElementSibling(k, n) ==
    LET p == parentNode(k, n) IN
    IF p \notin Lists THEN NULL
    ELSE LET i == IndexOf(k[p], n) IN IF i = Len(k[p]) THEN NULL ELSE k[p][i + 1]

\* Node.removeChild
removeChild(k, n) == [c \in Lists |-> RemoveFrom(k[c], n)]

\* insertBefore leaving a copy of the node at its old place
insertBeforeCopy(k, parent, node, ref) ==
    [k EXCEPT ![parent] =
        IF ref = NULL THEN Append(k[parent], node)
        ELSE InsertAt(k[parent], IndexOf(k[parent], ref), node)]

\* parent.insertBefore(node, ref): node leaves its old place and is put in
\* front of ref, a child of parent; a null ref appends
insertBefore(k, parent, node, ref) ==
    LET k1 == removeChild(k, node) IN
    [k1 EXCEPT ![parent] =
        IF ref = NULL THEN Append(k1[parent], node)
        ELSE InsertAt(k1[parent], IndexOf(k1[parent], ref), node)]

\* Element.tagName of the items of the page
tagName(n) ==
    IF layout = "table" THEN "TR" ELSE IF layout = "sections" THEN "TBODY" ELSE "LI"

\* Element.children.length of an item: row i of the table has i - 1 cells
childrenLength(n) == IF layout = "table" THEN n - 1 ELSE 0

\* document.querySelectorAll(selector): the items in document order
querySelectorAll(k) == k[LIST1] \o k[LIST2]

\* document.querySelector(parentSelector); a parent selector is written as
\* the container it names
querySelector(sel) == sel

(* ---------------------------------------------------------------------- *)
(* Options                                                                 *)
(* ---------------------------------------------------------------------- *)
\* DomMover.defaults; a callback slot is TRUE when it holds a function
defaults ==
    [pickup |-> [parent |-> NULL, disabledClass |-> "sortable-disabled",
                 addClass |-> "sortable-dragging", removeClass |-> ""],
     callbacks |-> [pickup |-> FALSE, drag |-> FALSE, drop |-> FALSE, beforeDrop |-> FALSE],
     dataAttributes |-> {"id", "sort"},
     dropIndicatorClass |-> "sortable-drop-indicator",
     dropIndicator |-> TRUE,
     placeholderClass |-> "sortable-placeholder",
     allowDuplicateCallbacks |-> FALSE]

\* Object.assign({}, DomMover.defaults, options): a key of the caller's
\* object replaces the default of that key as a whole
ObjectAssign(d, u) ==
    [key \in DOMAIN d |-> IF key \in DOMAIN u THEN u[key] ELSE d[key]]

\* A pickup group in which the caller wrote only the parent selector: the
\* keys it leaves out read as undefined
PartialPickup(p) ==
    [parent |-> p, disabledClass |-> "undefined", addClass |-> "undefined",
     removeClass |-> "undefined"]

\* A pickup group with every key written out
FullPickup(p) ==
    [parent |-> p, disabledClass |-> "sortable-disabled",
     addClass |-> "sortable-dragging", removeClass |-> ""]

PickupGroups == {PartialPickup(LIST1), FullPickup(LIST1)}

\* A pickup group that takes the class every item of the page carries off the
\* dragged element
DecoratedPickup(p) ==
    [parent |-> p, disabledClass |-> "sortable-disabled",
     addClass |-> "sortable-dragging", removeClass |-> "item"]

\* The callbacks group of the caller: pickup, drag and drop are recorded,
\* beforeDrop is given or not
CallbackGroups ==
    {[pickup |-> TRUE, drag |-> TRUE, drop |-> TRUE, beforeDrop |-> b] : b \in BOOLEAN}

\* The options objects a caller passes
UserOptions ==
    {[callbacks |-> c] : c \in CallbackGroups}
    \cup {[callbacks |-> c, pickup |-> p] : c \in CallbackGroups, p \in PickupGroups}
    \cup {[callbacks |-> c, pickup |-> PartialPickup(LIST1),
           allowDuplicateCallbacks |-> TRUE] : c \in CallbackGroups}
    \cup {[callbacks |-> c, pickup |-> DecoratedPickup(LIST1)] :
              c \in {g \in CallbackGroups : ~g.beforeDrop}}

ArgKinds == {"selector", "element", "collection", "invalid"}

\* A class-name option that names no class: '' and undefined are falsy
Falsy(classes) == classes \in {"", "undefined"}

(* ---------------------------------------------------------------------- *)
(* Helpers of the instance                                                 *)
(* ---------------------------------------------------------------------- *)
\* getItemData
getItemData(ds, opts, item) == [attr \in opts.dataAttributes |-> ds[item][attr]]

NoData == [attr \in {"id", "sort"} |-> NULL]

\* addClasses / removeClasses on one element's class set
addClasses(cl, classes) == IF Falsy(classes) THEN cl ELSE cl \cup {classes}

removeClasses(cl, classes) == IF Falsy(classes) THEN cl ELSE cl \ {classes}

\* getParentElement: the walk upward from a candidate common parent
RECURSIVE commonParentFrom(_, _, _, _)
commonParentFrom(k, cl, els, commonParent) ==
    IF commonParent = NULL THEN NULL
    ELSE IF \A i \in 1..Len(els) :
                contains(k, commonParent, els[i]) /\ InstanceId \in cl[els[i]]
         THEN commonParent
         ELSE commonParentFrom(k, cl, els, parentNode(k, commonParent))

\* getParentElement('pickup')
getParentElement(k, cl, els, opts) ==
    IF opts.pickup.parent # NULL THEN querySelector(opts.pickup.parent)
    ELSE IF Len(els) > 0 THEN commonParentFrom(k, cl, els, parentNode(k, els[1]))
    ELSE NULL

\* isWithinParent(element, 'pickup')
isWithinParent(k, cl, opts, element) ==
    IF opts.pickup.parent = NULL THEN TRUE
    ELSE IF querySelector(opts.pickup.parent) = NULL THEN TRUE
    ELSE /\ contains(k, querySelector(opts.pickup.parent), element)
         /\ element \in DOMAIN cl
         /\ InstanceId \in cl[element]

\* disabledOnPath looking at the element alone
disabledOnPathSelf(k, cl, opts, current) ==
    current \in DOMAIN cl /\ opts.pickup.disabledClass \in cl[current]

\* isDraggable: the walk upward looking for the disabled class
RECURSIVE disabledOnPath(_, _, _, _)
disabledOnPath(k, cl, opts, current) ==
    IF current = NULL THEN FALSE
    ELSE IF current \in DOMAIN cl /\ opts.pickup.disabledClass \in cl[current] THEN TRUE
    ELSE IF opts.pickup.parent # NULL /\ current = querySelector(opts.pickup.parent) THEN FALSE
    ELSE IF current = BODY THEN FALSE
    ELSE disabledOnPath(k, cl, opts, parentNode(k, current))

\* isDraggable
isDraggable(k, cl, opts, element) ==
    IF disabledOnPath(k, cl, opts, element) THEN FALSE
    ELSE isWithinParent(k, cl, opts, element)

\* isValidSortableElement
isValidSortableElement(tag) ==
    tag \notin {"TBODY", "THEAD", "TFOOT", "CAPTION", "COLGROUP", "COL", "HTML", "HEAD", "BODY"}

\* e.target.closest(`${this.elementOrSelector}.${this.instanceId}`) for a
\* selector string: the selector matches the items and, once built, the
\* placeholder (same tag, same container); the containers never match
closest(cl, target) ==
    IF target \in DOMAIN cl /\ InstanceId \in cl[target] THEN target ELSE NULL

(* ---------------------------------------------------------------------- *)
(* The callback log                                                        *)
(* ---------------------------------------------------------------------- *)
Call(fn, item, data, prev, prevData, next, below, pos, ret) ==
    [fn |-> fn, item |-> item, data |-> data, prev |-> prev, prevData |-> prevData,
     next |-> next, below |-> below, pos |-> pos, ret |-> ret]

PickupCall(item, data, prev, next) ==
    Call("pickup", item, data, prev, NoData, next, NULL, "", "")

DragCall(item, below, pos) ==
    Call("drag", item, NoData, NULL, NoData, NULL, below, pos, "")

BeforeDropCall(item, prev, data, prevData, next, ret) ==
    Call("beforeDrop", item, data, prev, prevData, next, NULL, "", ret)

DropCall(item, prev, data, prevData, next) ==
    Call("drop", item, data, prev, prevData, next, NULL, "", "")

Only(log, fn) == SelectSeq(log, LAMBDA c : c.fn = fn)

\* What a beforeDrop callback may return
ReturnValues == {"false", "undefined", "null", "0", "true"}

\* A positioning tick that was not skipped: the element below and the sign
\* of the pointer's vertical move since the tick before
Tick(below, y, lastY) ==
    [below |-> below, dy |-> IF y > lastY THEN 1 ELSE IF y < lastY THEN -1 ELSE 0]

NoTick == [below |-> NULL, dy |-> 0]

\* The element children of the lists when the page is loaded
pageKids(l) ==
    IF l = "list" \/ l = "sections"
    THEN [c \in Lists |-> IF c = LIST1 THEN <<1, 2, 3>> ELSE <<>>]
    ELSE [c \in Lists |-> IF c = LIST1 THEN <<1, 2>> ELSE <<3>>]

(* ---------------------------------------------------------------------- *)
(* A second instance on the same page                                      *)
(* ---------------------------------------------------------------------- *)
\* The marker class of the second instance
OtherId == "dmY"

\* The second instance manages the third item alone
OtherElements == <<3>>

\* The fields of a second instance that was never constructed
OtherAbsent ==
    [constructed |-> FALSE, boundAt |-> NULL, options |-> defaults, draggedItem |-> NULL,
     placeholder |-> NULL, lastMouseY |-> 0, lastDraggedOver |-> NULL,
     lastMouseDirection |-> "null", calls |-> <<>>, threw |-> FALSE, wrote |-> FALSE]

(* ---------------------------------------------------------------------- *)
(* The page before the script runs                                         *)
(* ---------------------------------------------------------------------- *)
Init ==
    /\ layout \in Layouts
    /\ kids = pageKids(layout)
    /\ \E d \in DisabledAt :
           classList = [n \in Elements |->
                           (IF n \in Items THEN {"item"} ELSE {})
                           \cup (IF n = d THEN {"sortable-disabled"} ELSE {})]
    /\ draggableAttr = {}
    /\ dataset = [i \in Items |-> [id |-> i, sort |-> UNDEFINED]]
    /\ dragImage = 0
    /\ constructed = FALSE
    /\ elementOrSelector = "invalid"
    /\ elements = <<>>
    /\ options = defaults
    /\ boundAt = NULL
    /\ draggedItem = NULL
    /\ draggedItemData = NoData
    /\ placeholder = NULL
    /\ phColspan = NULL
    /\ tagNameCopy = "null"
    /\ lastMouseY = 0
    /\ lastDraggedOver = NULL
    /\ lastMouseDirection = "null"
    /\ native = "none"
    /\ nativeSource = NULL
    /\ last = "load"
    /\ threw = FALSE
    /\ calls = <<>>
    /\ pickupLog = <<>>
    /\ dropLog = <<>>
    /\ dropOutcome = "none"
    /\ prevTick = NoTick
    /\ kidsAtPickup = kids
    /\ kidsAtDrop = kids
    /\ classesAtPickup = {}
    /\ other = OtherAbsent

(* ---------------------------------------------------------------------- *)
(* new DomMover(elementOrSelector, options)                                *)
(* ---------------------------------------------------------------------- *)
\* this.elements for each kind of first argument
ElementsOf(arg) ==
    IF arg = "selector" \/ arg = "collection" THEN querySelectorAll(kids)
    ELSE IF arg = "element" THEN <<querySelectorAll(kids)[1]>>
    ELSE <<>>

\* bindEvents: the node the five listeners end up on
bindEvents(k, cl, els, opts) == getParentElement(k, cl, els, opts)

\* init tagging the elements only when a delegation root was found
initTagWhenBound(els, opts) ==
    /\ boundAt' = bindEvents(kids, classList, els, opts)
    /\ draggableAttr' = IF boundAt' = NULL THEN draggableAttr
                        ELSE draggableAttr \cup SeqToSet(els)
    /\ classList' = [n \in DOMAIN classList |->
                        IF n \in SeqToSet(els) /\ boundAt' # NULL
                        THEN classList[n] \cup {InstanceId}
                        ELSE classList[n]]

\* init: bindEvents, then every element is made draggable and tagged
init(els, opts) ==
    /\ boundAt' = bindEvents(kids, classList, els, opts)
    /\ draggableAttr' = draggableAttr \cup SeqToSet(els)
    /\ classList' = [n \in DOMAIN classList |->
                        IF n \in SeqToSet(els) THEN classList[n] \cup {InstanceId}
                        ELSE classList[n]]

constructor(arg, userOptions) ==
    /\ ~constructed
    /\ constructed' = TRUE
    /\ elementOrSelector' = arg
    /\ elements' = ElementsOf(arg)
    /\ IF arg = "invalid"
       THEN UNCHANGED <<options, boundAt, draggableAttr, classList>>
       ELSE /\ options' = ObjectAssign(defaults, userOptions)
            /\ init(ElementsOf(arg), ObjectAssign(defaults, userOptions))
    /\ UNCHANGED <<layout, kids, dataset, dragImage, draggedItem, draggedItemData,
                   placeholder, phColspan, tagNameCopy, lastMouseY, lastDraggedOver,
                   lastMouseDirection, native, nativeSource, threw, calls, pickupLog,
                   dropLog, dropOutcome, prevTick, kidsAtPickup, kidsAtDrop, classesAtPickup>>
    /\ last' = "construct"

(* ---------------------------------------------------------------------- *)
(* dragstart                                                               *)
(* ---------------------------------------------------------------------- *)
\* The listeners bound at the delegation root receive an event whose target
\* lies below the root
Reaches(target) == boundAt # NULL /\ contains(kids, boundAt, target)

\* createPlaceholder: the classes and the colspan of the new placeholder
placeholderClasses(opts) ==
    {opts.placeholderClass, InstanceId}
    \cup (IF opts.dropIndicator THEN {opts.dropIndicatorClass} ELSE {})

placeholderColspan(tag, item) ==
    IF tag = "TR"
    THEN (IF childrenLength(item) = 0 THEN 1 ELSE childrenLength(item))
    ELSE NULL

\* The data record handleDragStart stores for the dragged element
pickupData(item) == getItemData(dataset, options, item)

\* pickupCalls of a handleDragStart that never invokes the pickup callback
pickupCallsNone(item) == <<>>

\* pickupCalls with the two siblings handed over in the wrong order
pickupCallsSwapped(item) ==
    IF options.callbacks.pickup
    THEN <<PickupCall(item, pickupData(item), nextElementSibling(kids, item),
                      previousElementSibling(kids, item))>>
    ELSE <<>>

\* The callbacks handleDragStart invokes
pickupCalls(item) ==
    IF options.callbacks.pickup
    THEN <<PickupCall(item, pickupData(item), previousElementSibling(kids, item),
                      nextElementSibling(kids, item))>>
    ELSE <<>>

handleDragStart(target) ==
    /\ constructed
    /\ native = "none"
    /\ dragImage = 0
    /\ target \in draggableAttr
    /\ parentNode(kids, target) # NULL
    /\ nativeSource' = target
    /\ kidsAtPickup' = kids
    /\ kidsAtDrop' = kids
    /\ classesAtPickup' = classList[target]
    /\ dropLog' = <<>>
    /\ dropOutcome' = "none"
    /\ prevTick' = NoTick
    /\ threw' = FALSE
    /\ last' = "dragstart"
    /\ UNCHANGED <<layout, kids, draggableAttr, dataset, constructed, elementOrSelector,
                   elements, options, boundAt, lastMouseY, lastDraggedOver,
                   lastMouseDirection>>
    /\ IF ~Reaches(target) \/ ~isDraggable(kids, classList, options, target)
       THEN /\ native' = "dragging"
            /\ calls' = <<>>
            /\ UNCHANGED <<classList, dragImage, draggedItem, draggedItemData,
                           placeholder, phColspan, tagNameCopy>>
       ELSE IF ~isValidSortableElement(tagName(target))
       THEN /\ native' = "none"
            /\ draggedItem' = target
            /\ tagNameCopy' = tagName(target)
            /\ calls' = <<>>
            /\ UNCHANGED <<classList, dragImage, draggedItemData, placeholder, phColspan>>
       ELSE /\ native' = "dragging"
            /\ draggedItem' = target
            /\ tagNameCopy' = tagName(target)
            /\ draggedItemData' = pickupData(target)
            /\ calls' = pickupCalls(target)
            /\ placeholder' = PH
            /\ phColspan' = placeholderColspan(tagName(target), target)
            /\ classList' = [classList EXCEPT
                   ![target] = removeClasses(addClasses(@, options.pickup.addClass),
                                             options.pickup.removeClass),
                   ![PH] = placeholderClasses(options)]
            /\ dragImage' = dragImage + 1
    /\ pickupLog' = calls'

\* requestAnimationFrame(() => document.body.removeChild(dragImage)): the
\* frame comes before the browser dispatches the next event of the drag
removeDragImage ==
    /\ dragImage > 0
    /\ dragImage' = dragImage - 1
    /\ last' = "frame"
    /\ UNCHANGED <<layout, kids, classList, draggableAttr, dataset, inst, native,
                   nativeSource, threw, calls, pickupLog, dropLog, dropOutcome, prevTick,
                   kidsAtPickup, kidsAtDrop, classesAtPickup>>

(* ---------------------------------------------------------------------- *)
(* dragover                                                                *)
(* ---------------------------------------------------------------------- *)
\* The nodes a pointer event of the drag can have as its target
Targets == Items \cup {PH} \cup {LIST1, LIST2, WRAP}

\* mouseDirection of handleDragOver
mouseDirection(y, lastY) == IF y < lastY THEN "up" ELSE "down"

\* The placeholder moves of handleDragOver: after the element below when the
\* pointer went down, before it when the pointer went up, unless already there
positionPlaceholder(k, below, ph, y, lastY) ==
    IF y > lastY
    THEN (IF nextElementSibling(k, below) # ph
          THEN insertBefore(k, parentNode(k, below), ph, nextElementSibling(k, below))
          ELSE k)
    ELSE IF y < lastY
    THEN (IF previousElementSibling(k, below) # ph
          THEN insertBefore(k, parentNode(k, below), ph, below)
          ELSE k)
    ELSE k

\* insertBefore is reached with a null placeholder: a TypeError
insertsNull(k, below, ph, y, lastY) ==
    /\ ph = NULL
    /\ \/ y > lastY /\ nextElementSibling(k, below) # ph
       \/ y < lastY /\ previousElementSibling(k, below) # ph

\* placeholderPosition of handleDragOver
placeholderPosition(k, below, ph) ==
    IF previousElementSibling(k, ph) = below THEN "top" ELSE "bottom"

\* dispatchDrag without the duplicate suppression
dispatchDragAlways(opts, below, dir, lastOver, lastDir) == TRUE

\* The guard of the drag callback in handleDragOver
dispatchDrag(opts, below, dir, lastOver, lastDir) ==
    opts.allowDuplicateCallbacks \/ below # lastOver \/ dir # lastDir

handleDragOver(target, y) ==
    /\ native = "dragging"
    /\ dragImage = 0
    /\ Reaches(target)
    /\ UNCHANGED <<layout, classList, draggableAttr, dataset, dragImage, constructed,
                   elementOrSelector, elements, options, boundAt, draggedItem,
                   draggedItemData, placeholder, phColspan, tagNameCopy, native,
                   nativeSource, pickupLog, dropLog, dropOutcome, kidsAtPickup,
                   kidsAtDrop, classesAtPickup>>
    /\ IF elementOrSelector # "selector"
       THEN \* the selector handed to closest() is not a valid selector
            /\ threw' = TRUE
            /\ last' = "dragover"
            /\ calls' = <<>>
            /\ UNCHANGED <<kids, lastMouseY, lastDraggedOver, lastMouseDirection,
                           prevTick>>
       ELSE LET below == closest(classList, target)
                dir == mouseDirection(y, lastMouseY)
                k1 == positionPlaceholder(kids, below, placeholder, y, lastMouseY)
            IN
            IF below = NULL \/ below = draggedItem \/ below = placeholder
            THEN /\ threw' = FALSE
                 /\ last' = "dragover-skipped"
                 /\ calls' = <<>>
                 /\ UNCHANGED <<kids, lastMouseY, lastDraggedOver, lastMouseDirection,
                                prevTick>>
            ELSE IF insertsNull(kids, below, placeholder, y, lastMouseY)
            THEN /\ threw' = TRUE
                 /\ last' = "dragover"
                 /\ calls' = <<>>
                 /\ UNCHANGED <<kids, lastMouseY, lastDraggedOver, lastMouseDirection,
                                prevTick>>
            ELSE IF placeholder = NULL
            THEN \* this.placeholder.previousElementSibling on null
                 /\ threw' = TRUE
                 /\ last' = "dragover"
                 /\ calls' = <<>>
                 /\ lastMouseY' = y
                 /\ UNCHANGED <<kids, lastDraggedOver, lastMouseDirection, prevTick>>
            ELSE /\ threw' = FALSE
                 /\ last' = "dragover"
                 /\ kids' = k1
                 /\ lastMouseY' = y
                 /\ calls' = IF /\ dispatchDrag(options, below, dir, lastDraggedOver,
                                                lastMouseDirection)
                                /\ options.callbacks.drag
                             THEN <<DragCall(draggedItem, below,
                                             placeholderPosition(k1, below, placeholder))>>
                             ELSE <<>>
                 /\ lastDraggedOver' = below
                 /\ lastMouseDirection' = dir
                 /\ prevTick' = Tick(below, y, lastMouseY)

(* ---------------------------------------------------------------------- *)
(* dragenter                                                               *)
(* ---------------------------------------------------------------------- *)
handleDragEnter(target) ==
    /\ native = "dragging"
    /\ dragImage = 0
    /\ Reaches(target)
    /\ threw' = (isDraggable(kids, classList, options, target)
                 /\ elementOrSelector # "selector")
    /\ calls' = <<>>
    /\ last' = "dragenter"
    /\ UNCHANGED <<dom, inst, native, nativeSource, pickupLog, dropLog, dropOutcome,
                   prevTick, kidsAtPickup, kidsAtDrop, classesAtPickup>>

(* ---------------------------------------------------------------------- *)
(* drop                                                                    *)
(* ---------------------------------------------------------------------- *)
\* beforeElementData of handleDrop
beforeElementData(prevElem) ==
    IF prevElem # NULL THEN getItemData(dataset, options, prevElem) ELSE NoData

\* dropData read again from the element when it is dropped
dropDataFresh(item) == getItemData(dataset, options, item)

\* The dragged element's data record handleDrop hands to beforeDrop and drop
dropData(item) == draggedItemData

\* vetoes with the return value of beforeDrop ignored
vetoesNever(ret) == FALSE

\* The return values of beforeDrop on which handleDrop gives up
vetoes(ret) == ret = "false"

\* moveDragged appending to the placeholder's parent instead
moveDraggedAppend(k, item, ph) == insertBefore(k, parentNode(k, ph), item, NULL)

\* this.placeholder.parentNode.insertBefore(this.draggedItem, this.placeholder)
moveDragged(k, item, ph) == insertBefore(k, parentNode(k, ph), item, ph)

\* dropIgnored going on without a dragged element
dropIgnoredNever(item) == FALSE

\* if (!this.draggedItem) return, of handleDrop
dropIgnored(item) == item = NULL

handleDrop ==
    /\ native = "dragging"
    /\ dragImage = 0
    /\ boundAt # NULL
    /\ native' = "dropped"
    /\ last' = "drop"
    /\ kidsAtDrop' = kids
    /\ UNCHANGED <<layout, classList, draggableAttr, dataset, dragImage, inst,
                   nativeSource, pickupLog, prevTick, kidsAtPickup, classesAtPickup>>
    /\ IF dropIgnored(draggedItem)
       THEN /\ threw' = FALSE
            /\ dropOutcome' = "noop"
            /\ calls' = <<>>
            /\ UNCHANGED kids
       ELSE IF placeholder = NULL
       THEN \* this.placeholder.previousElementSibling on null
            /\ threw' = TRUE
            /\ dropOutcome' = "threw"
            /\ calls' = <<>>
            /\ UNCHANGED kids
       ELSE LET prevElem == previousElementSibling(kids, placeholder)
                nextElem == nextElementSibling(kids, placeholder)
                prevData == beforeElementData(prevElem)
                dropCalls == IF options.callbacks.drop
                             THEN <<DropCall(draggedItem, prevElem, dropData(draggedItem),
                                             prevData, nextElem)>>
                             ELSE <<>>
            IN
            \E ret \in ReturnValues :
                LET asked == IF options.callbacks.beforeDrop
                             THEN <<BeforeDropCall(draggedItem, prevElem,
                                        dropData(draggedItem), prevData, nextElem, ret)>>
                             ELSE <<>>
                IN
                /\ options.callbacks.beforeDrop \/ ret = "undefined"
                /\ IF options.callbacks.beforeDrop /\ vetoes(ret)
                   THEN /\ threw' = FALSE
                        /\ dropOutcome' = "vetoed"
                        /\ calls' = asked
                        /\ UNCHANGED kids
                   ELSE IF parentNode(kids, placeholder) = NULL
                   THEN \* the placeholder was never inserted: insertBefore on null
                        /\ threw' = TRUE
                        /\ dropOutcome' = "threw"
                        /\ calls' = asked
                        /\ UNCHANGED kids
                   ELSE /\ threw' = FALSE
                        /\ dropOutcome' = "moved"
                        /\ kids' = moveDragged(kids, draggedItem, placeholder)
                        /\ calls' = asked \o dropCalls
    /\ dropLog' = calls'

(* ---------------------------------------------------------------------- *)
(* dragend                                                                 *)
(* ---------------------------------------------------------------------- *)
\* detachPlaceholder leaving the placeholder where it is
detachPlaceholderNever(k, ph) == k

\* The removal of the placeholder in handleDragEnd
detachPlaceholder(k, ph) ==
    IF ph # NULL /\ parentNode(k, ph) # NULL THEN removeChild(k, ph) ELSE k

handleDragEnd ==
    /\ native \in {"dragging", "dropped"}
    /\ dragImage = 0
    /\ native' = "none"
    /\ last' = "dragend"
    /\ calls' = <<>>
    /\ UNCHANGED <<layout, draggableAttr, dataset, dragImage, constructed, nativeSource,
                   elementOrSelector, elements, options, boundAt, phColspan, lastMouseY,
                   pickupLog, dropLog, dropOutcome, prevTick, kidsAtPickup, kidsAtDrop, classesAtPickup>>
    /\ IF ~Reaches(nativeSource)
       THEN /\ threw' = FALSE
            /\ UNCHANGED <<kids, classList, draggedItem, draggedItemData, placeholder,
                           tagNameCopy, lastDraggedOver, lastMouseDirection>>
       ELSE IF ~Falsy(options.pickup.addClass) /\ draggedItem = NULL
       THEN \* removeClasses reads classList of null
            /\ threw' = TRUE
            /\ UNCHANGED <<kids, classList, draggedItem, draggedItemData, placeholder,
                           tagNameCopy, lastDraggedOver, lastMouseDirection>>
       ELSE /\ threw' = FALSE
            /\ classList' = IF draggedItem = NULL THEN classList
                            ELSE [classList EXCEPT ![draggedItem] =
                                     removeClasses(@, options.pickup.addClass)]
            /\ kids' = detachPlaceholder(kids, placeholder)
            /\ draggedItem' = NULL
            /\ draggedItemData' = NoData
            /\ placeholder' = NULL
            /\ tagNameCopy' = "null"
            /\ lastDraggedOver' = NULL
            /\ lastMouseDirection' = "null"

(* ---------------------------------------------------------------------- *)
(* The page's own script                                                   *)
(* ---------------------------------------------------------------------- *)
\* The values the page writes into data-sort
SortValues == {7}

\* The items whose data-sort the page's script rewrites
ScriptedItems == {2}

\* element.dataset.sort = value, run by the page on the element being dragged
setDataAttribute(item, value) ==
    /\ native = "dragging"
    /\ item = nativeSource
    /\ dataset[item].sort # value
    /\ dataset' = [dataset EXCEPT ![item].sort = value]
    /\ last' = "script"
    /\ UNCHANGED <<layout, kids, classList, draggableAttr, dragImage, inst, native,
                   nativeSource, threw, calls, pickupLog, dropLog, dropOutcome, prevTick,
                   kidsAtPickup, kidsAtDrop, classesAtPickup>>

(* ---------------------------------------------------------------------- *)
(* Specification                                                           *)
(* ---------------------------------------------------------------------- *)
Construct ==
    /\ \E arg \in ArgKinds, u \in UserOptions : constructor(arg, u)
    /\ UNCHANGED other

DragStart == (\E target \in Items : handleDragStart(target)) /\ UNCHANGED other

DragOver ==
    /\ \E target \in Targets, y \in 0..MaxY : handleDragOver(target, y)
    /\ UNCHANGED other

DragEnter == (\E target \in Targets : handleDragEnter(target)) /\ UNCHANGED other

Drop == handleDrop /\ UNCHANGED other

DragEnd == handleDragEnd /\ UNCHANGED other

AnimationFrame == removeDragImage /\ UNCHANGED other

PageScript ==
    /\ \E item \in ScriptedItems, value \in SortValues : setDataAttribute(item, value)
    /\ UNCHANGED other

Next ==
    \/ Construct
    \/ DragStart
    \/ DragOver
    \/ DragEnter
    \/ Drop
    \/ DragEnd
    \/ AnimationFrame
    \/ PageScript

Spec == Init /\ [][Next]_vars

(* ---------------------------------------------------------------------- *)
(* Two instances on one page                                               *)
(* ---------------------------------------------------------------------- *)
\* The second instance after new DomMover(thirdItemSelector, {pickup: {...
\* parent: the third item's parent}, callbacks: {...}})
OtherConstructed(l) ==
    LET opts == ObjectAssign(defaults,
                    [pickup |-> FullPickup(parentNode(pageKids(l), OtherElements[1])),
                     callbacks |-> [pickup |-> TRUE, drag |-> TRUE, drop |-> TRUE,
                                    beforeDrop |-> FALSE]])
    IN [OtherAbsent EXCEPT !.constructed = TRUE, !.options = opts,
                           !.boundAt = querySelector(opts.pickup.parent)]

\* An event with this target reaches the listeners of the second instance
OtherReaches(o, k, target) == o.boundAt # NULL /\ contains(k, o.boundAt, target)

\* isWithinParent(element, 'pickup') of the second instance
otherIsWithinParent(o, k, cl, element) ==
    IF o.options.pickup.parent = NULL THEN TRUE
    ELSE IF querySelector(o.options.pickup.parent) = NULL THEN TRUE
    ELSE /\ contains(k, querySelector(o.options.pickup.parent), element)
         /\ element \in DOMAIN cl
         /\ OtherId \in cl[element]

\* isDraggable of the second instance
otherIsDraggable(o, k, cl, element) ==
    IF disabledOnPath(k, cl, o.options, element) THEN FALSE
    ELSE otherIsWithinParent(o, k, cl, element)

\* e.target.closest(selector.instanceId) of the second instance
otherClosest(cl, target) ==
    IF target \in DOMAIN cl /\ OtherId \in cl[target] THEN target ELSE NULL

\* The second instance's listener did not run, or ran and did nothing
OtherQuiet(o) == [o EXCEPT !.calls = <<>>, !.threw = FALSE]

\* handleDragStart of the second instance; an accepted pickup records the
\* dragged element, builds a placeholder and decorates the element
otherHandleDragStart(o, k, cl, ds, target) ==
    IF ~OtherReaches(o, k, target) \/ ~otherIsDraggable(o, k, cl, target)
    THEN OtherQuiet(o)
    ELSE IF ~isValidSortableElement(tagName(target))
    THEN [OtherQuiet(o) EXCEPT !.draggedItem = target]
    ELSE [o EXCEPT !.draggedItem = target,
                   !.placeholder = PH,
                   !.calls = IF o.options.callbacks.pickup
                             THEN <<PickupCall(target, getItemData(ds, o.options, target),
                                               previousElementSibling(k, target),
                                               nextElementSibling(k, target))>>
                             ELSE <<>>,
                   !.threw = FALSE,
                   !.wrote = TRUE]

\* handleDragOver of the second instance while it has no placeholder
otherHandleDragOver(o, k, cl, target, y) ==
    LET below == otherClosest(cl, target) IN
    IF ~OtherReaches(o, k, target) THEN OtherQuiet(o)
    ELSE IF below = NULL \/ below = o.draggedItem \/ below = o.placeholder
    THEN OtherQuiet(o)
    ELSE IF insertsNull(k, below, o.placeholder, y, o.lastMouseY)
    THEN [o EXCEPT !.calls = <<>>, !.threw = TRUE]
    ELSE \* this.placeholder.previousElementSibling on null
         [o EXCEPT !.lastMouseY = y, !.calls = <<>>, !.threw = TRUE]

\* handleDragEnter of the second instance
otherHandleDragEnter(o, k, cl, target) == OtherQuiet(o)

\* handleDrop of the second instance while it has no dragged element
otherHandleDrop(o) == OtherQuiet(o)

\* handleDragEnd of the second instance while it has no dragged element and
\* no placeholder
otherHandleDragEnd(o, k, source) ==
    IF ~OtherReaches(o, k, source) THEN OtherQuiet(o)
    ELSE IF ~Falsy(o.options.pickup.addClass)
    THEN \* removeClasses reads classList of null
         [o EXCEPT !.calls = <<>>, !.threw = TRUE]
    ELSE [OtherQuiet(o) EXCEPT !.draggedItem = NULL, !.placeholder = NULL,
                               !.lastDraggedOver = NULL, !.lastMouseDirection = "null"]

\* The page on which the second instance was constructed first: it manages
\* the third item, listens at that item's parent, and its listeners come
\* first where both instances listen at the same node
InitTwo ==
    /\ layout \in {"list", "table"}
    /\ kids = pageKids(layout)
    /\ classList = [n \in Elements |->
                       (IF n \in Items THEN {"item"} ELSE {})
                       \cup (IF n \in SeqToSet(OtherElements) THEN {OtherId} ELSE {})]
    /\ draggableAttr = SeqToSet(OtherElements)
    /\ dataset = [i \in Items |-> [id |-> i, sort |-> UNDEFINED]]
    /\ dragImage = 0
    /\ constructed = FALSE
    /\ elementOrSelector = "invalid"
    /\ elements = <<>>
    /\ options = defaults
    /\ boundAt = NULL
    /\ draggedItem = NULL
    /\ draggedItemData = NoData
    /\ placeholder = NULL
    /\ phColspan = NULL
    /\ tagNameCopy = "null"
    /\ lastMouseY = 0
    /\ lastDraggedOver = NULL
    /\ lastMouseDirection = "null"
    /\ native = "none"
    /\ nativeSource = NULL
    /\ last = "load"
    /\ threw = FALSE
    /\ calls = <<>>
    /\ pickupLog = <<>>
    /\ dropLog = <<>>
    /\ dropOutcome = "none"
    /\ prevTick = NoTick
    /\ kidsAtPickup = kids
    /\ kidsAtDrop = kids
    /\ classesAtPickup = {}
    /\ other = OtherConstructed(layout)

\* The options of the first instance on that page
TwoOptions ==
    {[callbacks |-> c, pickup |-> FullPickup(LIST1)] :
        c \in {g \in CallbackGroups : ~g.beforeDrop}}

\* The elements the first instance manages and the second does not
OnlyMine == {n \in SeqToSet(elements) : OtherId \notin classList[n]}

\* The second instance has no gesture of its own
OtherIdle == other.draggedItem = NULL /\ other.placeholder = NULL

ConstructTwo ==
    /\ \E u \in TwoOptions : constructor("selector", u)
    /\ UNCHANGED other

\* Every event is handled by the second instance's listener as well; the
\* gestures start on elements of the first instance alone
DragStartTwo ==
    /\ OtherIdle
    /\ \E target \in OnlyMine :
           /\ handleDragStart(target)
           /\ other' = otherHandleDragStart(other, kids, classList, dataset, target)

DragOverTwo ==
    /\ OtherIdle
    /\ \E target \in Targets, y \in 0..MaxY :
           /\ handleDragOver(target, y)
           /\ other' = otherHandleDragOver(other, kids, classList, target, y)

\* A dragover below the second instance's root and outside the first one's
dragOverOtherAlone(target, y) ==
    /\ native = "dragging"
    /\ dragImage = 0
    /\ ~Reaches(target)
    /\ OtherReaches(other, kids, target)
    /\ other' = otherHandleDragOver(other, kids, classList, target, y)
    /\ UNCHANGED <<dom, inst, env>>

DragOverOtherAlone ==
    /\ OtherIdle
    /\ \E target \in Targets, y \in 0..MaxY : dragOverOtherAlone(target, y)

DragEnterTwo ==
    /\ OtherIdle
    /\ \E target \in Targets :
           /\ handleDragEnter(target)
           /\ other' = otherHandleDragEnter(other, kids, classList, target)

DropTwo == OtherIdle /\ handleDrop /\ other' = otherHandleDrop(other)

DragEndTwo ==
    OtherIdle /\ handleDragEnd /\ other' = otherHandleDragEnd(other, kids, nativeSource)

NextTwo ==
    \/ ConstructTwo
    \/ DragStartTwo
    \/ DragOverTwo
    \/ DragOverOtherAlone
    \/ DragEnterTwo
    \/ DropTwo
    \/ DragEndTwo
    \/ AnimationFrame

SpecTwo == InitTwo /\ [][NextTwo]_vars

(* ---------------------------------------------------------------------- *)
(* Vocabulary of the properties                                            *)
(* ---------------------------------------------------------------------- *)
\* A gesture is active: an element is being dragged and its placeholder exists
Dragging == draggedItem # NULL /\ placeholder # NULL

Attached(k, n) == parentNode(k, n) # NULL

DropCalls == Only(dropLog, "drop")

BeforeDropCalls == Only(dropLog, "beforeDrop")

\* The drop of the last gesture was answered with false by beforeDrop
Vetoed == BeforeDropCalls # <<>> /\ BeforeDropCalls[1].ret = "false"

\* The drop of the last gesture was dispatched with the placeholder in the
\* document and was not vetoed
DroppedAtPlaceholder ==
    dropOutcome # "none" /\ pickupLog # <<>> /\ Attached(kidsAtDrop, PH) /\ ~Vetoed

\* The log holds one call, of the drag callback, for item over below
IsDragCall(log, item, below) ==
    /\ Len(log) = 1
    /\ log[1].fn = "drag"
    /\ log[1].item = item
    /\ log[1].below = below

\* The direction a tick infers from the pointer's vertical move
Dir(dy) == IF dy < 0 THEN "up" ELSE "down"

\* The lowest container that holds every element of els
NearestCommonAncestor(k, els) ==
    LET common == {a \in Containers : \A i \in 1..Len(els) : contains(k, a, els[i])}
    IN IF common = {} THEN NULL
       ELSE CHOOSE a \in common : \A b \in common : contains(k, b, a)

\* The children lists k with item taken out and then put where the
\* placeholder is
ExpectedAfterDrop(k, item) ==
    [c \in Lists |->
        LET rest == RemoveFrom(k[c], item)
        IN [i \in 1..Len(rest) |-> IF rest[i] = PH THEN item ELSE rest[i]]]

(* ---------------------------------------------------------------------- *)
(* C1..C10                                                                 *)
(* ---------------------------------------------------------------------- *)
\* C1: with no pickup.parent configured and a non-empty element set, the
\* listeners are bound at the nearest common ancestor of the managed
\* elements, and a drag-start on a managed element starts a gesture.
C1_RootIsNearestCommonAncestor ==
    (constructed /\ elementOrSelector # "invalid" /\ options.pickup.parent = NULL
        /\ elements # <<>>)
    => /\ boundAt = NearestCommonAncestor(pageKids(layout), elements)
       /\ (native = "dragging" /\ nativeSource \in SeqToSet(elements))
              => draggedItem = nativeSource

\* C2: after a drop that was not vetoed, made with the placeholder in the
\* document, and the drag-end that follows it, the dragged element sits
\* where the placeholder was at drop time and the other elements keep their
\* order; [A,B,C] with B dragged down over C ends as [A,C,B] with drop
\* receiving (B, C, dataOf(B), dataOf(C), null); row 1 dragged up over row 0
\* ends as [row1, row0].
C2_DropLandsAtPlaceholder ==
    (native = "none" /\ DroppedAtPlaceholder)
    => /\ kids = ExpectedAfterDrop(kidsAtDrop, nativeSource)
       /\ (layout = "list" /\ kidsAtPickup[LIST1] = <<1, 2, 3>> /\ nativeSource = 2
              /\ prevTick = [below |-> 3, dy |-> 1])
          => /\ kids[LIST1] = <<1, 3, 2>>
             /\ DropCalls = <<DropCall(2, 3, pickupLog[1].data,
                                       [id |-> 3, sort |-> dataset[3].sort], NULL)>>
             /\ pickupLog[1].data.id = 2
       /\ (layout = "table" /\ kidsAtPickup[LIST1] = <<1, 2>> /\ nativeSource = 2
              /\ prevTick = [below |-> 1, dy |-> -1])
          => kids[LIST1] = <<2, 1>>

C2_Witness ==
    /\ native = "none"
    /\ DroppedAtPlaceholder
    /\ layout = "list"
    /\ kidsAtPickup[LIST1] = <<1, 2, 3>>
    /\ nativeSource = 2
    /\ prevTick = [below |-> 3, dy |-> 1]
    /\ kids[LIST1] = <<1, 3, 2>>

\* C3: the previous-element and next-element arguments of the drop callback
\* are the dragged element's previous and next siblings in the completed
\* order, seen once drag-end has removed the placeholder, and neither is the
\* dragged element itself.
C3_DropArgsAreFinalNeighbours ==
    (native = "none" /\ DroppedAtPlaceholder /\ DropCalls # <<>>)
    => /\ DropCalls[1].prev = previousElementSibling(kids, nativeSource)
       /\ DropCalls[1].next = nextElementSibling(kids, nativeSource)
       /\ DropCalls[1].prev # nativeSource
       /\ DropCalls[1].next # nativeSource

\* C4: when beforeDrop returned false, after drag-end the order of the
\* elements is the order before the pickup and no placeholder remains.
C4_VetoRestoresOrder ==
    (native = "none" /\ Vetoed)
    => /\ kids = kidsAtPickup
       /\ ~Attached(kids, PH)

C4_Witness ==
    /\ native = "none"
    /\ Vetoed
    /\ Attached(kidsAtDrop, PH)
    /\ kids = kidsAtPickup

\* C5: on a drop during an active gesture the dragged element is moved and
\* the drop callback is invoked if and only if beforeDrop is not configured
\* or returned something other than false; when it returned false no drop
\* callback is invoked and no node is moved.
C5_DropProceedsUnlessFalse ==
    (native = "dropped" /\ Dragging)
    => LET proceed == BeforeDropCalls = <<>> \/ BeforeDropCalls[1].ret # "false"
       IN /\ proceed <=> (/\ Len(DropCalls) = 1
                          /\ nextElementSibling(kids, draggedItem) = placeholder)
          /\ ~proceed => kids = kidsAtDrop

\* C6: the drag-end of an active gesture clears the dragged element, its
\* data record, the placeholder, the last element below and the last
\* direction, and leaves the placeholder node attached nowhere.
C6_DragEndClearsGesture ==
    [][(native # "none" /\ native' = "none" /\ Dragging)
       => /\ draggedItem' = NULL
          /\ draggedItemData' = NoData
          /\ placeholder' = NULL
          /\ lastDraggedOver' = NULL
          /\ lastMouseDirection' = "null"
          /\ \A c \in Lists : PH \notin SeqToSet(kids'[c])]_vars

C6_Witness ==
    /\ last = "dragend"
    /\ pickupLog # <<>>
    /\ prevTick.dy # 0
    /\ dropOutcome = "none"
    /\ draggedItem = NULL
    /\ placeholder = NULL
    /\ ~Attached(kids, PH)

\* C7: a positioning tick of an active gesture that is not skipped invokes
\* the drag callback if and only if allowDuplicateCallbacks is set, or the
\* element below differs from that of the gesture's previous such tick, or
\* the inferred direction differs from that tick's.
C7_DragCallbackSuppression ==
    [][(native = "dragging" /\ Dragging /\ last' = "dragover" /\ ~threw')
       => IF \/ options.allowDuplicateCallbacks
             \/ prevTick'.below # prevTick.below
             \/ Dir(prevTick'.dy) # Dir(prevTick.dy)
          THEN IsDragCall(calls', draggedItem, prevTick'.below)
          ELSE calls' = <<>>]_vars

C7_Witness ==
    /\ last = "dragover"
    /\ ~threw
    /\ Dragging
    /\ ~options.allowDuplicateCallbacks
    /\ options.callbacks.drag
    /\ calls = <<>>

\* C8: two consecutive positioning ticks over the same element below with
\* the same inferred direction leave the sibling order after the second tick
\* as it was after the first.
C8_PositioningIdempotent ==
    [][(native = "dragging" /\ Dragging /\ last' = "dragover" /\ ~threw'
          /\ prevTick'.below = prevTick.below
          /\ Dir(prevTick'.dy) = Dir(prevTick.dy))
       => kids' = kids]_vars

\* C9: an accepted pickup invokes the pickup callback exactly once, before
\* any placeholder is inserted, with the dragged element, its data record
\* and its previous and next element siblings of before the drag; no other
\* handler invokes it.
C9_PickupCalledOnce ==
    /\ (last = "dragstart" /\ Dragging)
       => /\ calls = <<PickupCall(draggedItem,
                          [id |-> dataset[draggedItem].id,
                           sort |-> dataset[draggedItem].sort],
                          previousElementSibling(kidsAtPickup, draggedItem),
                          nextElementSibling(kidsAtPickup, draggedItem))>>
          /\ kids = kidsAtPickup
          /\ ~Attached(kids, PH)
    /\ last \in {"dragover", "dragover-skipped", "dragenter", "drop", "dragend"}
       => Only(calls, "pickup") = <<>>

C9_Witness ==
    /\ last = "dragstart"
    /\ Dragging
    /\ draggedItem = 2
    /\ Len(calls) = 1
    /\ calls[1].prev = 1
    /\ calls[1].next = 3

\* C10: the data record handed to beforeDrop and to drop is the record
\* handed to pickup, also when the dragged element's data attributes were
\* rewritten between pickup and drop.
C10_DataCapturedAtPickup ==
    \A i \in 1..Len(dropLog) :
        /\ pickupLog # <<>>
        /\ dropLog[i].data = pickupLog[1].data
        /\ dropLog[i].item = pickupLog[1].item

C10_Witness ==
    /\ dropOutcome = "moved"
    /\ Len(BeforeDropCalls) = 1
    /\ Len(DropCalls) = 1
    /\ dataset[nativeSource].sort # pickupLog[1].data.sort
    /\ DropCalls[1].data = pickupLog[1].data

(* ---------------------------------------------------------------------- *)
(* C11, C13..C20                                                           *)
(* ---------------------------------------------------------------------- *)
\* No gesture is active and none is half recorded
Idle == draggedItem = NULL /\ placeholder = NULL

\* The pickup boundary of target: the configured pickup parent when it lies
\* above target, the document body otherwise
PickupBoundary(k, opts, target) ==
    IF opts.pickup.parent # NULL /\ contains(k, querySelector(opts.pickup.parent), target)
    THEN querySelector(opts.pickup.parent)
    ELSE BODY

\* target and its ancestors up to the pickup boundary, the boundary included
PickupPath(k, opts, target) ==
    {n \in Elements : contains(k, n, target)
                       /\ contains(k, PickupBoundary(k, opts, target), n)}

\* A node of the pickup path of target carries the disabled class
DisabledOnPickupPath(k, cl, opts, target) ==
    \E n \in PickupPath(k, opts, target) : opts.pickup.disabledClass \in cl[n]

\* C11: a drag-start whose target, or an ancestor of it up to the nearer of
\* the document body and the pickup boundary, carries the disabled class is
\* rejected: the instance's state is kept, no placeholder is built, no class
\* is changed and pickup is not invoked; a disabled class above the pickup
\* boundary alone does not block the pickup.
C11_DisabledPathRejectsPickup ==
    [][(last' = "dragstart" /\ Reaches(nativeSource'))
       => /\ DisabledOnPickupPath(kids, classList, options, nativeSource')
                 => /\ UNCHANGED inst
                    /\ UNCHANGED <<kids, classList, dragImage>>
                    /\ calls' = <<>>
          /\ (/\ ~DisabledOnPickupPath(kids, classList, options, nativeSource')
              /\ PickupBoundary(kids, options, nativeSource') # BODY
              /\ options.pickup.disabledClass \in classList[WRAP]
              /\ isValidSortableElement(tagName(nativeSource')))
                 => /\ draggedItem' = nativeSource'
                    /\ placeholder' = PH
                    /\ Len(calls') = 1]_vars

C11_Witness ==
    /\ last = "dragstart"
    /\ Reaches(nativeSource)
    /\ options.pickup.disabledClass \in classList[LIST1]
    /\ options.pickup.disabledClass \notin classList[nativeSource]
    /\ native = "dragging"
    /\ Idle
    /\ calls = <<>>

\* C16: after every handler the instance is either idle, with no dragged
\* element and no placeholder, or dragging, with both; a drag-start rejected
\* for the tag kind of its target (TBODY, THEAD, ...) leaves it idle.
C16_IdleOrDragging ==
    last \in {"dragstart", "dragover", "dragover-skipped", "dragenter", "drop", "dragend"}
    => Idle \/ Dragging

\* C17: drag-over and drag-end events that reach the delegation root while
\* the instance is idle raise no error, invoke no callback, move no node and
\* change no field of the instance; stated for an instance built from a
\* selector string.
C17_IdleEventsAreNoOps ==
    [][(native \in {"dragging", "dropped"} /\ Idle /\ boundAt # NULL
          /\ elementOrSelector = "selector"
          /\ last' \in {"dragover", "dragover-skipped", "dragend"})
       => /\ ~threw'
          /\ calls' = <<>>
          /\ UNCHANGED <<kids, classList>>
          /\ UNCHANGED inst]_vars

\* C19: after the drag-end of a gesture the dragged element carries the
\* classes it carried before the pickup, whatever pickup.addClass and
\* pickup.removeClass are.
C19_DecorationsRoundTrip ==
    (last = "dragend" /\ ~threw /\ pickupLog # <<>>)
    => classList[nativeSource] = classesAtPickup

\* C12: while the gestures start on elements managed by the first instance
\* alone, the second instance invokes none of its callbacks, writes nothing
\* to the document and keeps its dragged item, placeholder, last pointer Y,
\* last element below and last direction as they were after its construction.
C12_OtherInstanceUntouched ==
    /\ other.calls = <<>>
    /\ ~other.wrote
    /\ other.draggedItem = NULL
    /\ other.placeholder = NULL
    /\ other.lastMouseY = 0
    /\ other.lastDraggedOver = NULL
    /\ other.lastMouseDirection = "null"

\* C13: after construction with a selector, an element or a collection,
\* every managed element carries the instance's marker class and the
\* draggable flag, whether or not a delegation root was found; after
\* construction with an invalid argument no element is tagged and no listener
\* is bound.
C13_ElementsTagged ==
    constructed
    => IF elementOrSelector # "invalid"
       THEN /\ elements # <<>>
            /\ elementOrSelector # "element"
                   => SeqToSet(elements) = SeqToSet(querySelectorAll(pageKids(layout)))
            /\ \A i \in 1..Len(elements) :
                   /\ InstanceId \in classList[elements[i]]
                   /\ elements[i] \in draggableAttr
       ELSE /\ boundAt = NULL
            /\ draggableAttr = {}
            /\ \A n \in Items : InstanceId \notin classList[n]

C13_Witness ==
    /\ constructed
    /\ elementOrSelector = "collection"
    /\ boundAt = NULL
    /\ Len(elements) = 3
    /\ \A n \in Items : InstanceId \in classList[n] /\ n \in draggableAttr

\* C14: after every positioning tick of an active gesture that is not
\* skipped, the placeholder is attached and is the immediate neighbour of the
\* element below: right after it when the inferred direction is down (pointer
\* Y greater than or equal to the previous Y), right before it when it is up.
C14_PlaceholderNextToElementBelow ==
    (last = "dragover" /\ ~threw /\ Dragging)
    => /\ Attached(kids, placeholder)
       /\ Dir(prevTick.dy) = "down"
              => previousElementSibling(kids, placeholder) = prevTick.below
       /\ Dir(prevTick.dy) = "up"
              => nextElementSibling(kids, placeholder) = prevTick.below

\* C15: a drop during an active gesture whose placeholder was never inserted
\* into the document raises no error and leaves the order of the managed
\* elements unchanged.
C15_DropWithoutPlaceholderIsQuiet ==
    (last = "drop" /\ Dragging /\ ~Attached(kidsAtDrop, placeholder))
    => /\ ~threw
       /\ kids = kidsAtDrop

\* C18: in every gesture, the second and later ones of an instance included,
\* the first positioning tick that is not skipped infers the direction down
\* whatever pointer Y the earlier gestures saw: the last pointer Y does not
\* carry over a drag-end.
C18_FirstTickInfersDown ==
    [][(native = "dragging" /\ Dragging /\ prevTick = NoTick
          /\ last' = "dragover" /\ ~threw')
       => lastMouseDirection' = "down"]_vars

\* C20: an element is owned (isWithinParent) exactly when it carries the
\* instance marker and, if a containment selector is configured, the selected
\* container contains it; with no containment selector an element without
\* the marker is not owned.
C20_OwnedIffMarked ==
    (constructed /\ elementOrSelector # "invalid")
    => \A element \in Items :
           isWithinParent(kids, classList, options, element)
           <=> /\ InstanceId \in classList[element]
               /\ options.pickup.parent # NULL
                      => contains(kids, querySelector(options.pickup.parent), element)

(* ---------------------------------------------------------------------- *)
(* C21..C25                                                                *)
(* ---------------------------------------------------------------------- *)
\* The handlers of the instance, as recorded in last
Handlers == {"dragstart", "dragover", "dragover-skipped", "dragenter", "drop", "dragend"}

\* Every call of the log is a call of fn
AllOf(log, fn) == \A i \in 1..Len(log) : log[i].fn = fn

\* The kinds of the calls of the log, in order
Kinds(log) == [i \in 1..Len(log) |-> log[i].fn]

\* How often node n occurs among the children of the lists
Occurrences(k, n) ==
    Cardinality({<<c, i>> \in Lists \X (1..4) : i <= Len(k[c]) /\ k[c][i] = n})

\* C21: in each gesture the callbacks come as pickup, then drag any number of
\* times, then beforeDrop at most once, then drop at most once: drag,
\* beforeDrop and drop only follow a pickup call of the same gesture, drop
\* only follows the move of the dragged element, and nothing is invoked from
\* drag-end to the next pickup.
C21_CallbackOrder ==
    [][(last' \in Handlers)
       => /\ last' = "dragstart" => calls' \in {<<>>, pickupLog'} /\ AllOf(calls', "pickup")
          /\ last' \in {"dragover", "dragover-skipped"}
                => /\ AllOf(calls', "drag")
                   /\ Len(calls') <= 1
                   /\ calls' # <<>>
                         => /\ pickupLog # <<>>
                            /\ calls'[1].item = pickupLog[1].item
                            /\ dropOutcome = "none"
          /\ last' = "drop"
                => /\ Kinds(calls') \in {<<>>, <<"beforeDrop">>, <<"drop">>,
                                         <<"beforeDrop", "drop">>}
                   /\ calls' # <<>>
                         => /\ pickupLog # <<>>
                            /\ \A i \in 1..Len(calls') : calls'[i].item = pickupLog[1].item
                            /\ dropOutcome = "none"
                   /\ Only(calls', "drop") # <<>>
                         => /\ dropOutcome' = "moved"
                            /\ nextElementSibling(kids', pickupLog[1].item) = PH
          /\ last' \in {"dragenter", "dragend"} => calls' = <<>>
          /\ native' = "none" => (calls' = <<>> /\ native = "none") \/ last' = "dragend"]_vars

C21_Witness ==
    /\ last = "drop"
    /\ Kinds(calls) = <<"beforeDrop", "drop">>
    /\ Len(pickupLog) = 1
    /\ prevTick # NoTick
    /\ nextElementSibling(kids, pickupLog[1].item) = PH

\* C22: at most one placeholder is attached to the document, none is while
\* the instance is idle, and a positioning tick that is skipped because the
\* element below is the placeholder or the dragged element moves no node,
\* invokes no callback and keeps the last pointer Y, the last element below
\* and the last direction.
C22_OnePlaceholder ==
    [][/\ Occurrences(kids', PH) <= 1
       /\ (draggedItem' = NULL /\ placeholder' = NULL) => Occurrences(kids', PH) = 0
       /\ last' = "dragover-skipped"
             => /\ UNCHANGED <<kids, lastMouseY, lastDraggedOver, lastMouseDirection>>
                /\ calls' = <<>>]_vars

C22_Witness ==
    /\ last = "dragover-skipped"
    /\ Dragging
    /\ Occurrences(kids, PH) = 1
    /\ lastDraggedOver # NULL

\* C23: a drop handled while no element is being dragged raises no error,
\* moves no node, invokes neither beforeDrop nor drop and changes no field of
\* the instance.
C23_DropWithoutItemIsNoOp ==
    [][(draggedItem = NULL /\ last' = "drop")
       => /\ ~threw'
          /\ calls' = <<>>
          /\ UNCHANGED <<kids, classList>>
          /\ UNCHANGED inst]_vars

C23_Witness ==
    /\ last = "drop"
    /\ draggedItem = NULL
    /\ nativeSource \in SeqToSet(elements)
    /\ ~threw
    /\ dropLog = <<>>

\* C24: for an instance built from an element or from a collection, as for
\* one built from a selector string, a positioning tick over a managed
\* element other than the dragged one raises nothing, takes that element as
\* the element below and puts the placeholder after it when the pointer went
\* down and before it when it went up.
C24_PositioningForEveryInput ==
    [][\A n \in Items, y \in 0..MaxY :
          (/\ native = "dragging"
           /\ Dragging
           /\ n \in SeqToSet(elements)
           /\ n # draggedItem
           /\ handleDragOver(n, y))
          => /\ ~threw'
             /\ lastDraggedOver' = n
             /\ y > lastMouseY => previousElementSibling(kids', placeholder) = n
             /\ y < lastMouseY => nextElementSibling(kids', placeholder) = n]_vars

\* C25: a pickup group of which the caller wrote only some keys keeps the
\* documented defaults of the others: the effective disabled class is
\* sortable-disabled and the effective dragging class is sortable-dragging,
\* so an accepted pickup never has a target carrying sortable-disabled and
\* always leaves sortable-dragging on the dragged element.
C25_PartialGroupKeepsDefaults ==
    (constructed /\ elementOrSelector # "invalid")
    => /\ options.pickup.disabledClass = "sortable-disabled"
       /\ options.pickup.addClass = "sortable-dragging"
       /\ (last = "dragstart" /\ Dragging)
             => /\ "sortable-disabled" \notin classesAtPickup
                /\ "sortable-dragging" \in classList[draggedItem]

====
